---- MODULE Spec2Model ----
(***************************************************************************)
(* Model of src/services/diffbot/convert_markdown.py: the renderer        *)
(* TEArticleRenderer (link, paragraph, get_articles) driven by the        *)
(* sequence of link and paragraph callbacks the markdown walker makes,    *)
(* the navigation-skipping prefix of convert_markdown_to_articles, two    *)
(* interleaved conversions, convert_file, and the monitor runs of         *)
(* scraper.py and firecrawl.py.                                            *)
(* Python strings are sequences of one-character strings.                 *)
(***************************************************************************)
EXTENDS Integers, Sequences, FiniteSets, TLC

VARIABLES
    raw_text,         \* the argument of convert_markdown_to_articles
    markdown_text,    \* the local markdown_text (reassigned by the split)
    current_article,  \* TEArticleRenderer.current_article
    articles,         \* TEArticleRenderer.articles
    walked,           \* the callbacks made so far, in order
    calls,            \* how many times get_articles has run
    pc,               \* "entry", "parse", "walk", "returned"
    renderers,        \* the TEArticleRenderer objects of interleaved conversions
    inv,              \* per interleaved conversion: callbacks made, position, result
    store,            \* the persisted last-seen record (Redis key or last_news.json)
    last_run,         \* what the latest monitor run did
    runs,             \* monitor runs so far
    input_file,       \* convert_file: the file it is given and what its I/O will do
    output_file,      \* convert_file: the processed_articles file, once opened
    returned          \* convert_file: its return value

walk_vars == <<raw_text, markdown_text, current_article, articles, walked, calls, pc>>
conc_vars == <<renderers, inv>>
monitor_vars == <<store, last_run, runs>>
file_vars == <<input_file, output_file, returned>>

vars == <<walk_vars, conc_vars, monitor_vars, file_vars>>

(***************************************************************************)
(* Bounds                                                                  *)
(***************************************************************************)
MaxEvents == 4      \* callbacks per walk
MaxSegments == 3    \* segments a raw text is assembled from
MaxCalls == 2       \* get_articles runs in the re-finalization check
MaxRuns == 3        \* monitor runs
MaxFileEvents == 2  \* callbacks the markdown of an input file gives rise to
MaxInterleaved == 2 \* callbacks per conversion when two are interleaved

(***************************************************************************)
(* Python str operations                                                   *)
(***************************************************************************)
Min(S) == CHOOSE m \in S : \A n \in S : m <= n

\* str.startswith(p)
StartsWith(s, p) == Len(s) >= Len(p) /\ SubSeq(s, 1, Len(p)) = p

\* str.endswith(p)
EndsWith(s, p) == Len(s) >= Len(p) /\ SubSeq(s, Len(s) - Len(p) + 1, Len(s)) = p

\* p in s
Contains(s, p) == \E i \in 1..(Len(s) - Len(p) + 1) : SubSeq(s, i, i + Len(p) - 1) = p

\* str.find(p) + 1: the first position of p in s, 0 when absent
Find(s, p) ==
    LET hits == {i \in 1..(Len(s) - Len(p) + 1) : SubSeq(s, i, i + Len(p) - 1) = p}
    IN  IF hits = {} THEN 0 ELSE Min(hits)

\* str.split(p): the pieces between the non-overlapping occurrences of p
RECURSIVE Split(_, _)
Split(s, p) ==
    LET i == Find(s, p)
    IN  IF i = 0 THEN <<s>>
        ELSE <<SubSeq(s, 1, i - 1)>> \o Split(SubSeq(s, i + Len(p), Len(s)), p)

\* str.lstrip(chars): drop leading characters that are in cs
RECURSIVE LStripChars(_, _)
LStripChars(s, cs) ==
    IF s = <<>> \/ s[1] \notin cs THEN s ELSE LStripChars(Tail(s), cs)

\* str.rstrip(chars): drop trailing characters that are in cs
RECURSIVE RStripChars(_, _)
RStripChars(s, cs) ==
    IF s = <<>> \/ s[Len(s)] \notin cs THEN s ELSE RStripChars(SubSeq(s, 1, Len(s) - 1), cs)

\* str.strip(chars): drop leading and trailing characters that are in cs
StripChars(s, cs) == RStripChars(LStripChars(s, cs), cs)

\* the whitespace str.strip() removes (the ASCII part TLA+ can denote)
Whitespace == {" ", "\t", "\n", "\r", "\f"}

\* str.strip()
Strip(s) == StripChars(s, Whitespace)

\* str.replace(a, b) for one-character a and b
Replace(s, a, b) == [i \in 1..Len(s) |-> IF s[i] = a THEN b ELSE s[i]]

\* s[:n]
Slice(s, n) == SubSeq(s, 1, IF Len(s) < n THEN Len(s) ELSE n)

\* c * n
RECURSIVE Repeat(_, _)
Repeat(c, n) == IF n = 0 THEN <<>> ELSE <<c>> \o Repeat(c, n - 1)

(***************************************************************************)
(* Literals of the source                                                  *)
(***************************************************************************)
Bold == <<"*", "*">>
Ago == <<"a", "g", "o">>
USTag == <<"[", "U", "n", "i", "t", "e", "d", " ", "S", "t", "a", "t", "e", "s", "]">>
StreamMark == <<"s", "t", "r", "e", "a", "m", "?", "i", "=">>
Origin == <<"h", "t", "t", "p", "s", ":", "/", "/", "t", "r", "a", "d", "i", "n", "g",
            "e", "c", "o", "n", "o", "m", "i", "c", "s", ".", "c", "o", "m">>
DefaultCategory == <<"M", "a", "r", "k", "e", "t", " ", "N", "e", "w", "s">>
TEName == <<"T", "r", "a", "d", "i", "n", "g", " ", "E", "c", "o", "n", "o", "m", "i", "c", "s">>
NavMarker == <<"-", " ", "u", "n", "i", "t", "e", "d", " ", "s", "t", "a", "t", "e", "s", "\n", "\n">>
Separator == <<"\n", "\n">>
SummaryLen == 200

\* self.current_article = None
None == [none |-> TRUE]

(***************************************************************************)
(* The callbacks the walker can make                                       *)
(***************************************************************************)
StreamUrl == <<"/", "s", "t", "r", "e", "a", "m", "?", "i", "=", "5">>
LinkEvents ==
    { [kind |-> "link", text |-> <<"*", "*", "A", "*", "*">>, url |-> <<"/", "n">>],   \* a title
      [kind |-> "link", text |-> <<"*", "*">>, url |-> StreamUrl],                     \* asterisks only
      [kind |-> "link", text |-> <<"[", "x", "+", "y", "]">>, url |-> StreamUrl],      \* a category
      [kind |-> "link", text |-> <<"z">>, url |-> StreamUrl],                          \* another category
      [kind |-> "link", text |-> <<"A">>, url |-> <<"/", "n">>] }                      \* any other link
ParagraphTexts ==
    { <<>>,                                              \* what is left of a paragraph made of one link
      <<"x">>,
      <<" ", "y", "\n">>,                                \* whitespace at both ends
      <<" ", "\t">>,                                     \* whitespace only
      <<"3", " ", "a", "g", "o">>,
      <<" ", "5", " ", "a", "g", "o">>,
      USTag \o <<" ", "z">>,
      USTag \o <<" ", "a", "g", "o">>,
      Repeat("w", SummaryLen + 1) }

ParagraphEvents == [kind : {"paragraph"}, text : ParagraphTexts, url : {<<>>}]

(***************************************************************************)
(* TEArticleRenderer                                                       *)
(***************************************************************************)
\* text.startswith('**') and text.endswith('**')
IsTitle(text) == StartsWith(text, Bold) /\ EndsWith(text, Bold)

\* NewArticle, were the open dict updated in place instead of replaced
NewArticle_Inheriting(text, url) ==
    IF current_article # None
    THEN [current_article EXCEPT !.title = StripChars(text, {"*"}), !.url = Origin \o url]
    ELSE [ title        |-> StripChars(text, {"*"}),
           url          |-> Origin \o url,
           content      |-> <<>>,
           category     |-> DefaultCategory,
           published_at |-> <<>>,
           source       |-> TEName,
           author       |-> TEName,
           summary      |-> <<>> ]

\* the dict built for a new title
NewArticle(text, url) ==
    [ title        |-> StripChars(text, {"*"}),
      url          |-> Origin \o url,
      content      |-> <<>>,
      category     |-> DefaultCategory,
      published_at |-> <<>>,
      source       |-> TEName,
      author       |-> TEName,
      summary      |-> <<>> ]

\* text.strip('[]').replace('+', ' ')
CategoryOf(text) == Replace(StripChars(text, {"[", "]"}), "+", " ")

\* Commit, were the superseded article dropped instead of appended
Commit_Dropped(list, open) == list

\* link, title branch: the open article, if any, is appended to the list
Commit(list, open) == IF open # None THEN Append(list, open) ELSE list

\* SetCategory, were the category set only while still the default
SetCategory_FirstWins(open, text) ==
    IF open # None /\ open.category = DefaultCategory
    THEN [open EXCEPT !.category = CategoryOf(text)]
    ELSE open

\* SetCategory, were the category link to start the article's body afresh
SetCategory_Reset(open, text) ==
    IF open # None
    THEN [open EXCEPT !.category = CategoryOf(text), !.content = <<>>]
    ELSE open

\* link, category branch: the open article with its category replaced
SetCategory(open, text) ==
    IF open # None THEN [open EXCEPT !.category = CategoryOf(text)] ELSE open

\* TEArticleRenderer.link
link(text, url) ==
    /\ pc = "walk"
    /\ Len(walked) < MaxEvents
    /\ IF IsTitle(text)
       THEN /\ articles' = Commit(articles, current_article)
            /\ current_article' = NewArticle(text, url)
       ELSE IF Contains(url, StreamMark)
       THEN /\ current_article' = SetCategory(current_article, text)
            /\ UNCHANGED articles
       ELSE UNCHANGED <<current_article, articles>>
    /\ walked' = Append(walked, [kind |-> "link", text |-> text, url |-> url])
    /\ UNCHANGED <<raw_text, markdown_text, calls, pc>>
    /\ UNCHANGED <<conc_vars, monitor_vars, file_vars>>

\* AppendContent, were the separator written before every fragment
AppendContent_AlwaysSeparated(content, text) == content \o Separator \o text

\* the content after one more body paragraph
AppendContent(content, text) ==
    (IF content # <<>> THEN content \o Separator ELSE content) \o text

\* Classify, were a timestamp paragraph also taken as body text
Classify_AgoAppended(open, text) ==
    IF EndsWith(text, Ago)
    THEN [open EXCEPT !.published_at = Strip(text),
                      !.content = AppendContent(open.content, text)]
    ELSE IF ~StartsWith(text, USTag)
    THEN [open EXCEPT !.content = AppendContent(open.content, text)]
    ELSE open

\* Classify, were the '[United States]' test missing
Classify_TagAppended(open, text) ==
    IF EndsWith(text, Ago)
    THEN [open EXCEPT !.published_at = Strip(text)]
    ELSE [open EXCEPT !.content = AppendContent(open.content, text)]

\* Classify, were published_at set only while still empty
Classify_FirstWins(open, text) ==
    IF EndsWith(text, Ago)
    THEN IF open.published_at = <<>>
         THEN [open EXCEPT !.published_at = Strip(text)]
         ELSE open
    ELSE IF ~StartsWith(text, USTag)
    THEN [open EXCEPT !.content = AppendContent(open.content, text)]
    ELSE open

\* Classify, were the timestamp stored untrimmed
Classify_AgoUntrimmed(open, text) ==
    IF EndsWith(text, Ago)
    THEN [open EXCEPT !.published_at = text]
    ELSE IF ~StartsWith(text, USTag)
    THEN [open EXCEPT !.content = AppendContent(open.content, text)]
    ELSE open

\* paragraph, the classification of the text for an open article
Classify(open, text) ==
    IF EndsWith(text, Ago)
    THEN [open EXCEPT !.published_at = Strip(text)]
    ELSE IF ~StartsWith(text, USTag)
    THEN [open EXCEPT !.content = AppendContent(open.content, text)]
    ELSE open

\* paragraph, were text before the first title to open an untitled article
paragraph_Untitled(text) ==
    /\ pc = "walk"
    /\ Len(walked) < MaxEvents
    /\ current_article' = IF current_article # None
                          THEN Classify(current_article, text)
                          ELSE Classify(NewArticle(<<>>, <<>>), text)
    /\ walked' = Append(walked, [kind |-> "paragraph", text |-> text, url |-> <<>>])
    /\ UNCHANGED <<raw_text, markdown_text, articles, calls, pc>>
    /\ UNCHANGED <<conc_vars, monitor_vars, file_vars>>

\* TEArticleRenderer.paragraph
paragraph(text) ==
    /\ pc = "walk"
    /\ Len(walked) < MaxEvents
    /\ current_article' = IF current_article # None
                          THEN Classify(current_article, text)
                          ELSE current_article
    /\ walked' = Append(walked, [kind |-> "paragraph", text |-> text, url |-> <<>>])
    /\ UNCHANGED <<raw_text, markdown_text, articles, calls, pc>>
    /\ UNCHANGED <<conc_vars, monitor_vars, file_vars>>

\* Flush, were the open article not appended at the end of the walk
Flush_Dropped(list, open) == list

\* get_articles, first statement: the open article is appended
Flush(list, open) == IF open # None THEN Append(list, open) ELSE list

\* FinalizeArticle, were the category reset to its default as well
FinalizeArticle_CategoryReset(article) ==
    [article EXCEPT
        !.summary = IF article.content # <<>> THEN Slice(article.content, SummaryLen) ELSE <<>>,
        !.content = Strip(article.content),
        !.category = DefaultCategory]

\* get_articles, loop body: summary from the content, then the content trimmed
FinalizeArticle(article) ==
    [article EXCEPT
        !.summary = IF article.content # <<>> THEN Slice(article.content, SummaryLen) ELSE <<>>,
        !.content = Strip(article.content)]

\* get_articles, the loop over self.articles
Finalize(list) == [i \in 1..Len(list) |-> FinalizeArticle(list[i])]

\* TEArticleRenderer.get_articles; the open article is one of the dicts of
\* the list, so the loop changes it too
get_articles_body ==
    /\ articles' = Finalize(Flush(articles, current_article))
    /\ current_article' = IF current_article # None
                          THEN FinalizeArticle(current_article)
                          ELSE current_article
    /\ calls' = calls + 1
    /\ pc' = "returned"
    /\ UNCHANGED <<raw_text, markdown_text, walked>>
    /\ UNCHANGED <<conc_vars, monitor_vars, file_vars>>

\* the call convert_markdown_to_articles makes when the walk is over
get_articles ==
    /\ pc = "walk"
    /\ get_articles_body

\* a further call on the same renderer
get_articles_again ==
    /\ pc = "returned"
    /\ calls < MaxCalls
    /\ get_articles_body

(***************************************************************************)
(* convert_markdown_to_articles, the navigation skip                       *)
(***************************************************************************)
\* the text handed to the parser
SkipNavigation(text) ==
    IF Contains(text, NavMarker) THEN Split(text, NavMarker)[2] ELSE text

skip_navigation ==
    /\ pc = "entry"
    /\ markdown_text' = SkipNavigation(markdown_text)
    /\ pc' = "parse"
    /\ UNCHANGED <<raw_text, current_article, articles, walked, calls>>
    /\ UNCHANGED <<conc_vars, monitor_vars, file_vars>>

\* raw texts: up to MaxSegments segments, each the marker, a near miss or text
Segments ==
    { NavMarker,
      SubSeq(NavMarker, 1, Len(NavMarker) - 1),
      <<"a">>, <<"b", "\n">>, <<"\n">> }

RECURSIVE Join(_)
Join(segs) == IF segs = <<>> THEN <<>> ELSE Head(segs) \o Join(Tail(segs))

RawTexts ==
    { Join(segs) : segs \in UNION { [1..n -> Segments] : n \in 0..MaxSegments } }

(***************************************************************************)
(* Two conversions whose callbacks are interleaved                         *)
(***************************************************************************)
Invocations == {1, 2}

\* RendererOf, were the renderer a module-level object used by every call
RendererOf_Shared(i) == 1

\* renderer = TEArticleRenderer(): each call makes its own renderer
RendererOf(i) == i

\* TEArticleRenderer.__init__
FreshRenderer == [current_article |-> None, articles |-> <<>>]

\* TEArticleRenderer.link on the renderer r
OnLink(r, text, url) ==
    IF IsTitle(text)
    THEN [current_article |-> NewArticle(text, url),
          articles        |-> Commit(r.articles, r.current_article)]
    ELSE IF Contains(url, StreamMark)
    THEN [r EXCEPT !.current_article = SetCategory(r.current_article, text)]
    ELSE r

\* TEArticleRenderer.paragraph on the renderer r
OnParagraph(r, text) ==
    IF r.current_article # None
    THEN [r EXCEPT !.current_article = Classify(r.current_article, text)]
    ELSE r

\* TEArticleRenderer.get_articles on the renderer r
OnGetArticles(r) ==
    [current_article |-> IF r.current_article # None
                         THEN FinalizeArticle(r.current_article)
                         ELSE r.current_article,
     articles        |-> Finalize(Flush(r.articles, r.current_article))]

\* the callbacks of the interleaved conversions
ConcLinkEvents ==
    { e \in LinkEvents : e.text \in {<<"*", "*", "A", "*", "*">>, <<"*", "*">>, <<"z">>} }
ConcParagraphEvents ==
    { e \in ParagraphEvents : e.text \in {<<"x">>, <<"3", " ", "a", "g", "o">>} }

conc_link(i, text, url) ==
    /\ inv[i].pc = "walk"
    /\ Len(inv[i].walked) < MaxInterleaved
    /\ renderers' = [renderers EXCEPT ![RendererOf(i)] = OnLink(@, text, url)]
    /\ inv' = [inv EXCEPT ![i].walked =
                  Append(@, [kind |-> "link", text |-> text, url |-> url])]
    /\ UNCHANGED <<walk_vars, monitor_vars, file_vars>>

conc_paragraph(i, text) ==
    /\ inv[i].pc = "walk"
    /\ Len(inv[i].walked) < MaxInterleaved
    /\ renderers' = [renderers EXCEPT ![RendererOf(i)] = OnParagraph(@, text)]
    /\ inv' = [inv EXCEPT ![i].walked =
                  Append(@, [kind |-> "paragraph", text |-> text, url |-> <<>>])]
    /\ UNCHANGED <<walk_vars, monitor_vars, file_vars>>

\* return renderer.get_articles(): the list returned is the renderer's list
conc_get_articles(i) ==
    /\ inv[i].pc = "walk"
    /\ renderers' = [renderers EXCEPT ![RendererOf(i)] = OnGetArticles(@)]
    /\ inv' = [inv EXCEPT ![i].pc = "returned"]
    /\ UNCHANGED <<walk_vars, monitor_vars, file_vars>>

\* the list conversion i has returned
ResultOf(i) == renderers[RendererOf(i)].articles

\* one conversion run on its own over the callbacks events
RECURSIVE WalkAlone(_, _)
WalkAlone(r, events) ==
    IF events = <<>> THEN r
    ELSE WalkAlone(IF Head(events).kind = "link"
                   THEN OnLink(r, Head(events).text, Head(events).url)
                   ELSE OnParagraph(r, Head(events).text),
                   Tail(events))

RunAlone(events) == OnGetArticles(WalkAlone(FreshRenderer, events)).articles

(***************************************************************************)
(* The monitor: scraper.main and the main block of firecrawl.py            *)
(***************************************************************************)
Variants == {"scraper", "firecrawl"}

\* Python's None where the other values are strings
NoValue == "<None>"

\* not x, for x a string or None
Falsy(x) == x = NoValue \/ x = ""

NEWS_URL == "https://tradingeconomics.com/stream?c=united+states"

\* what the page can show on top: a title (possibly empty) or nothing
TopTitles == {"T1", "T2", "", NoValue}
TopUrls == {"/u", NoValue}

\* a last_news.json whose write stopped after open(DATA_FILE, 'w')
Corrupt == [corrupt |-> TRUE]

\* the title held by the stored record, whether or not it can be read
StoredTitle(record) ==
    IF record = None \/ record = Corrupt THEN NoValue ELSE record.title

\* load_last_news()[0]: None when the store cannot be reached or read, or is empty
LoadTitle(record, read_ok) ==
    IF ~read_ok THEN NoValue ELSE StoredTitle(record)

\* get_top_news_item(): firecrawl.py answers with the feed url for any item found
TopItem(variant, title, url) ==
    IF title = NoValue THEN [title |-> NoValue, url |-> NoValue]
    ELSE IF variant = "firecrawl" THEN [title |-> title, url |-> NEWS_URL]
    ELSE [title |-> title, url |-> url]

\* the tests that guard the run: scraper.py 276, firecrawl.py 206
Fetched(variant, top) ==
    IF variant = "scraper" THEN ~(Falsy(top.title) \/ Falsy(top.url))
    ELSE ~Falsy(top.title)

\* IsNew, were the stored title not compared
IsNew_Always(last_title, top) == TRUE

\* the comparison with the loaded title: scraper.py 284, firecrawl.py 208
IsNew(last_title, top) == last_title # top.title

\* the outcomes of save_last_news: Redis SET succeeds or not; the file write
\* can also stop after the file was truncated
WriteOutcomes(variant) ==
    IF variant = "firecrawl" THEN {"ok", "failed", "torn"} ELSE {"ok", "failed"}

\* save_last_news(title, url) on the stored record
Save(record, top, write) ==
    IF write = "ok" THEN [title |-> top.title, url |-> top.url]
    ELSE IF write = "torn" THEN Corrupt
    ELSE record

\* StoreAfter, were the record saved before the extraction result is tested
StoreAfter_SaveFirst(record, top, extracted, got_result, write) ==
    IF extracted THEN Save(record, top, write) ELSE record

\* the stored record after the run: saved only when extraction returned
\* something (scraper.py 295-297, firecrawl.py 216-217)
StoreAfter(record, top, extracted, got_result, write) ==
    IF extracted /\ got_result THEN Save(record, top, write) ELSE record

\* one run of the monitor
monitor_run(variant, title, url, read_ok, extract_ok, write) ==
    /\ runs < MaxRuns
    /\ LET top        == TopItem(variant, title, url)
           last_title == LoadTitle(store[variant], read_ok)
           fetched    == Fetched(variant, top)
           extracted  == fetched /\ IsNew(last_title, top)
           got_result == extracted /\ extract_ok
       IN  /\ store' = [store EXCEPT ![variant] =
                            StoreAfter(@, top, extracted, got_result, write)]
           /\ last_run' = [ variant       |-> variant,
                            top           |-> top,
                            stored_before |-> StoredTitle(store[variant]),
                            last_title    |-> last_title,
                            fetched       |-> fetched,
                            extracted     |-> extracted,
                            got_result    |-> got_result,
                            saved         |-> got_result /\ write = "ok" ]
    /\ runs' = runs + 1
    /\ UNCHANGED <<walk_vars, conc_vars, file_vars>>

(***************************************************************************)
(* convert_file                                                            *)
(***************************************************************************)
\* the callbacks a markdown text can give rise to
RECURSIVE WalksUpTo(_)
WalksUpTo(n) ==
    IF n = 0 THEN {<<>>}
    ELSE LET shorter == WalksUpTo(n - 1)
         IN  shorter \cup { Append(w, e) : w \in shorter, e \in ConcLinkEvents \cup ConcParagraphEvents }

\* what json.load(f) can meet: no readable JSON, JSON that is not an object,
\* or an object with or without 'success', 'data' and data['markdown']
Envelopes ==
    { [kind |-> k, success |-> FALSE, has_data |-> FALSE, markdown |-> "missing", events |-> <<>>] :
         k \in {"unreadable", "not_object"} }
    \cup
    { e \in [kind : {"object"}, success : BOOLEAN, has_data : BOOLEAN,
             markdown : {"missing", "not_text", "text"}, events : WalksUpTo(MaxFileEvents)] :
         /\ ~e.has_data => e.markdown = "missing"
         /\ e.markdown # "text" => e.events = <<>> }

\* what writing the output can do: succeed, fail in open(), fail in
\* json.dump or on closing, after open() has created the file, or succeed
\* and be followed by an exception in the prints of lines 118-125
WriteResults == {"ok", "open_fails", "dump_fails", "report_fails"}

\* an output file whose write did not complete
Truncated == [truncated |-> TRUE]

\* data.get('success') and 'data' in data
ValidEnvelope(e) == e.success /\ e.has_data

\* WorthWriting, were an empty list written like any other
WorthWriting_Always(list) == TRUE

\* the test 'if not articles' negated
WorthWriting(list) == list # <<>>

\* the dict json.dump is given
OutputRecord(list) ==
    [ success  |-> TRUE,
      articles |-> list,
      metadata |-> [total_articles |-> Len(list), source |-> TEName] ]

\* convert_file(input_file): the output file and the result
ConvertFile(f) ==
    LET e == f.envelope
        no_output(converted) ==
            [output |-> None, value |-> FALSE, converted |-> converted]
    IN  IF e.kind # "object" THEN no_output(FALSE)
        ELSE IF ~ValidEnvelope(e) THEN no_output(FALSE)
        ELSE IF e.markdown = "missing" THEN no_output(FALSE)
        ELSE IF e.markdown = "not_text" THEN no_output(TRUE)
        ELSE LET list == RunAlone(e.events)
             IN  IF ~WorthWriting(list) THEN no_output(TRUE)
                 ELSE IF f.write = "open_fails" THEN no_output(TRUE)
                 ELSE IF f.write = "dump_fails"
                 THEN [output |-> Truncated, value |-> FALSE, converted |-> TRUE]
                 ELSE IF f.write = "report_fails"
                 THEN [output |-> OutputRecord(list), value |-> FALSE, converted |-> TRUE]
                 ELSE [output |-> OutputRecord(list), value |-> TRUE, converted |-> TRUE]

convert_file ==
    /\ returned = None
    /\ output_file' = ConvertFile(input_file).output
    /\ returned' = [value     |-> ConvertFile(input_file).value,
                    converted |-> ConvertFile(input_file).converted]
    /\ UNCHANGED <<input_file, walk_vars, conc_vars, monitor_vars>>

(***************************************************************************)
(* Specifications                                                          *)
(***************************************************************************)
\* the parts of the program a specification does not run
NoConversions ==
    /\ renderers = <<>>
    /\ inv = <<>>

NoMonitor ==
    /\ store = None
    /\ last_run = None
    /\ runs = 0

NoFile ==
    /\ input_file = None
    /\ output_file = None
    /\ returned = None

NoWalk ==
    /\ raw_text = <<>>
    /\ markdown_text = <<>>
    /\ current_article = None
    /\ articles = <<>>
    /\ walked = <<>>
    /\ calls = 0
    /\ pc = "idle"

\* the renderer right after TEArticleRenderer(), about to be driven
Init ==
    /\ raw_text = <<>>
    /\ markdown_text = <<>>
    /\ current_article = None
    /\ articles = <<>>
    /\ walked = <<>>
    /\ calls = 0
    /\ pc = "walk"
    /\ NoConversions /\ NoMonitor /\ NoFile

Next ==
    \/ \E e \in LinkEvents : link(e.text, e.url)
    \/ \E e \in ParagraphEvents : paragraph(e.text)
    \/ get_articles

Spec == Init /\ [][Next]_vars

\* the same renderer asked for its articles more than once
NextAgain ==
    \/ Next
    \/ get_articles_again

SpecAgain == Init /\ [][NextAgain]_vars

\* convert_markdown_to_articles on entry, for each raw text
InitSkip ==
    /\ raw_text \in RawTexts
    /\ markdown_text = raw_text
    /\ current_article = None
    /\ articles = <<>>
    /\ walked = <<>>
    /\ calls = 0
    /\ pc = "entry"
    /\ NoConversions /\ NoMonitor /\ NoFile

NextSkip == skip_navigation

SpecSkip == InitSkip /\ [][NextSkip]_vars

(***************************************************************************)
(* The walk as seen from its input                                         *)
(***************************************************************************)
IsTitleLink(e) == e.kind = "link" /\ IsTitle(e.text)
IsAgoParagraph(e) == e.kind = "paragraph" /\ EndsWith(e.text, Ago)
IsTagParagraph(e) == e.kind = "paragraph" /\ StartsWith(e.text, USTag)

\* the title links of w, in order
TitleLinks(w) == SelectSeq(w, IsTitleLink)

\* the position in w of its i-th title link; Len(w) + 1 when there is none
RECURSIVE TitlePos(_, _)
TitlePos(w, i) ==
    LET from == IF i = 1 THEN 0 ELSE TitlePos(w, i - 1)
        later == {k \in (from + 1)..Len(w) : IsTitleLink(w[k])}
    IN  IF later = {} THEN Len(w) + 1 ELSE Min(later)

\* the callbacks made while the i-th article was open
EventsOf(w, i) == SubSeq(w, TitlePos(w, i) + 1, TitlePos(w, i + 1) - 1)

\* a step that made one callback, and the callback made
Dispatched == Len(walked') = Len(walked) + 1
Ev == walked'[Len(walked')]

\* the last callback made
LastEvent == walked[Len(walked)]

(***************************************************************************)
(* C1: a walk with N title links returns exactly N articles, the i-th     *)
(* with the title and url of the i-th title link; N = 0 gives the empty   *)
(* list.                                                                   *)
(***************************************************************************)
C1_OneArticlePerTitle ==
    pc = "returned" =>
        LET titles == TitleLinks(walked)
        IN  /\ Len(articles) = Len(titles)
            /\ \A i \in 1..Len(titles) :
                  /\ articles[i].title = StripChars(titles[i].text, {"*"})
                  /\ articles[i].url = Origin \o titles[i].url

C1_Witness ==
    /\ pc = "returned"
    /\ Len(TitleLinks(walked)) = 2
    /\ Len(walked) = 4
    /\ articles[1].url # articles[2].url

(***************************************************************************)
(* C2: a paragraph ending in 'ago' that arrives while an article is open  *)
(* leaves that article's content unchanged and sets its published_at (to  *)
(* the text, trimmed).                                                     *)
(***************************************************************************)
C2_AgoNeverInContent ==
    [][ (Dispatched /\ IsAgoParagraph(Ev) /\ current_article # None) =>
            /\ current_article'.content = current_article.content
            /\ current_article'.published_at = Strip(Ev.text) ]_vars

C2_Witness ==
    /\ pc = "walk"
    /\ Len(walked) >= 3
    /\ IsAgoParagraph(LastEvent)
    /\ current_article # None
    /\ current_article.content # <<>>
    /\ current_article.published_at = Strip(LastEvent.text)

(***************************************************************************)
(* C3, as stated: a paragraph beginning with '[United States]' changes no *)
(* field of any article.                                                   *)
(***************************************************************************)
C3_TagNeverInOutput ==
    [][ (Dispatched /\ IsTagParagraph(Ev)) =>
            /\ current_article' = current_article
            /\ articles' = articles ]_vars

(***************************************************************************)
(* C3, amended: a paragraph beginning with '[United States]' is never     *)
(* appended to content and changes no field but published_at, which it    *)
(* sets (to its trimmed text) exactly when it also ends in 'ago'.         *)
(***************************************************************************)
C3_TagOnlyAsTimestamp ==
    [][ (Dispatched /\ IsTagParagraph(Ev)) =>
            /\ articles' = articles
            /\ current_article' =
                  IF current_article # None /\ EndsWith(Ev.text, Ago)
                  THEN [current_article EXCEPT !.published_at = Strip(Ev.text)]
                  ELSE current_article ]_vars

C3_Witness ==
    /\ pc = "walk"
    /\ Len(walked) >= 2
    /\ IsTagParagraph(LastEvent)
    /\ IsAgoParagraph(LastEvent)
    /\ current_article # None
    /\ StartsWith(current_article.published_at, USTag)

(***************************************************************************)
(* C4: in the returned list every summary is a prefix, at most            *)
(* SummaryLen long, of the article's trimmed content, and is empty        *)
(* exactly when that content is empty.                                     *)
(***************************************************************************)
C4_SummaryPrefixOfContent ==
    pc = "returned" =>
        \A i \in 1..Len(articles) :
            /\ Len(articles[i].summary) <= SummaryLen
            /\ StartsWith(articles[i].content, articles[i].summary)
            /\ (articles[i].summary = <<>>) <=> (articles[i].content = <<>>)

(***************************************************************************)
(* C5: a second run of get_articles returns a list of the same length     *)
(* whose articles have the same content and summary as after the first.   *)
(***************************************************************************)
C5_FinalizeIdempotent ==
    [][ (pc = "returned" /\ calls' = calls + 1) =>
            /\ Len(articles') = Len(articles)
            /\ \A i \in 1..Len(articles) :
                  /\ articles'[i].content = articles[i].content
                  /\ articles'[i].summary = articles[i].summary ]_vars

(***************************************************************************)
(* C6: the text handed to the parser is everything after the first        *)
(* occurrence of the marker, later occurrences included, and the whole    *)
(* text when the marker is absent.                                         *)
(***************************************************************************)
C6_EverythingAfterFirstMarker ==
    pc = "parse" =>
        markdown_text =
            IF Contains(raw_text, NavMarker)
            THEN SubSeq(raw_text, Find(raw_text, NavMarker) + Len(NavMarker), Len(raw_text))
            ELSE raw_text

(***************************************************************************)
(* The 'ago' paragraphs that arrived while the i-th article was open      *)
(***************************************************************************)
AgoOf(w, i) == SelectSeq(EventsOf(w, i), IsAgoParagraph)

(***************************************************************************)
(* C7, as stated: when two or more paragraphs ending in 'ago' arrive      *)
(* while an article is open, its final published_at is the (trimmed)      *)
(* text of the first of them.                                              *)
(***************************************************************************)
C7_FirstAgoWins ==
    pc = "returned" =>
        \A i \in 1..Len(articles) :
            Len(AgoOf(walked, i)) >= 2 =>
                articles[i].published_at = Strip(AgoOf(walked, i)[1].text)

(***************************************************************************)
(* C7, amended: published_at is set by every such paragraph and the last  *)
(* match wins: when two or more paragraphs ending in 'ago' arrive while   *)
(* an article is open, its final published_at is the trimmed text of the  *)
(* last of them.                                                           *)
(***************************************************************************)
C7_LastAgoWins ==
    pc = "returned" =>
        \A i \in 1..Len(articles) :
            LET agos == AgoOf(walked, i)
            IN  Len(agos) >= 2 =>
                    articles[i].published_at = Strip(agos[Len(agos)].text)

C7_Witness ==
    /\ pc = "returned"
    /\ Len(articles) = 1
    /\ Len(AgoOf(walked, 1)) = 2
    /\ AgoOf(walked, 1)[1].text # AgoOf(walked, 1)[2].text
    /\ articles[1].published_at = Strip(AgoOf(walked, 1)[2].text)

(***************************************************************************)
(* C8: every article of the returned list has a non-empty title.          *)
(***************************************************************************)
C8_TitleNonEmpty ==
    pc = "returned" => \A i \in 1..Len(articles) : articles[i].title # <<>>

(***************************************************************************)
(* C9: the list grows only when a title link commits the open article or  *)
(* when get_articles flushes it, and then by exactly that article; during *)
(* the walk the list holds the opened articles but the open one, and the  *)
(* returned list holds every opened article once.                         *)
(***************************************************************************)
Opened == Len(TitleLinks(walked))

C9_CommitOnlyAtTitleOrEnd ==
    /\ [](pc = "walk" =>
            /\ (current_article # None) <=> (Opened >= 1)
            /\ Len(articles) = IF Opened >= 1 THEN Opened - 1 ELSE 0)
    /\ [](pc = "returned" => Len(articles) = Opened)
    /\ [][ /\ (Dispatched /\ articles' # articles) =>
                /\ IsTitleLink(Ev)
                /\ current_article # None
                /\ articles' = Append(articles, current_article)
           /\ (Dispatched /\ IsTitleLink(Ev)) =>
                /\ current_article' # None
                /\ Len(articles') = Opened
           /\ (pc = "walk" /\ pc' = "returned") =>
                Len(articles') = Len(articles) + (IF current_article # None THEN 1 ELSE 0) ]_vars

C9_Witness ==
    /\ pc = "walk"
    /\ Len(articles) = 2
    /\ current_article # None
    /\ Opened = 3

(***************************************************************************)
(* C10: the loop of get_articles keeps the length and order of the list   *)
(* it is given and changes only content and summary.                       *)
(***************************************************************************)
C10_FinalizerFrame ==
    [][ (pc = "walk" /\ pc' = "returned") =>
            LET draft == Flush(articles, current_article)
            IN  /\ Len(articles') = Len(draft)
                /\ \A i \in 1..Len(draft) :
                      /\ articles'[i].title = draft[i].title
                      /\ articles'[i].url = draft[i].url
                      /\ articles'[i].category = draft[i].category
                      /\ articles'[i].published_at = draft[i].published_at
                      /\ articles'[i].source = draft[i].source
                      /\ articles'[i].author = draft[i].author
                      /\ DOMAIN articles'[i] = DOMAIN draft[i] ]_vars

C10_Witness ==
    /\ pc = "returned"
    /\ \E i \in 1..Len(articles) :
          /\ articles[i].category # DefaultCategory
          /\ articles[i].published_at # <<>>
          /\ articles[i].content # articles[i].summary

(***************************************************************************)
(* The body paragraphs and category links of the i-th article             *)
(***************************************************************************)
IsBodyParagraph(e) ==
    e.kind = "paragraph" /\ ~EndsWith(e.text, Ago) /\ ~StartsWith(e.text, USTag)
IsCategoryLink(e) ==
    e.kind = "link" /\ ~IsTitle(e.text) /\ Contains(e.url, StreamMark)

TextsOf(events) == [k \in 1..Len(events) |-> events[k].text]
BodiesOf(w, i) == TextsOf(SelectSeq(EventsOf(w, i), IsBodyParagraph))
CategoryLinksOf(w, i) == SelectSeq(EventsOf(w, i), IsCategoryLink)

\* sep.join(texts)
RECURSIVE JoinWith(_, _)
JoinWith(texts, sep) ==
    IF texts = <<>> THEN <<>>
    ELSE IF Len(texts) = 1 THEN texts[1]
    ELSE texts[1] \o sep \o JoinWith(Tail(texts), sep)

\* texts without its leading empty strings
RECURSIVE DropLeadingEmpty(_)
DropLeadingEmpty(texts) ==
    IF texts = <<>> \/ texts[1] # <<>> THEN texts ELSE DropLeadingEmpty(Tail(texts))

(***************************************************************************)
(* C12: an article's final content is the trimmed '\n\n'-join, in order,  *)
(* of the body paragraphs that arrived while it was open; while it is     *)
(* open its content is that join started at the first non-empty           *)
(* fragment, so without a leading separator.                              *)
(***************************************************************************)
C12_ContentIsJoinOfBodies ==
    /\ pc = "returned" =>
          \A i \in 1..Len(articles) :
              articles[i].content = Strip(JoinWith(BodiesOf(walked, i), Separator))
    /\ (pc = "walk" /\ current_article # None) =>
          current_article.content =
              JoinWith(DropLeadingEmpty(BodiesOf(walked, Len(TitleLinks(walked)))), Separator)

C12_Witness ==
    /\ pc = "returned"
    /\ \E i \in 1..Len(articles) :
          /\ Len(BodiesOf(walked, i)) = 3
          /\ BodiesOf(walked, i)[1] = <<>>
          /\ BodiesOf(walked, i)[2] # <<>>
          /\ articles[i].content # <<>>

(***************************************************************************)
(* C13: an article's final category is the label (brackets stripped, '+'  *)
(* to space) of the last category link seen while it was open, and        *)
(* 'Market News' when there was none.                                      *)
(***************************************************************************)
C13_LastCategoryWins ==
    pc = "returned" =>
        \A i \in 1..Len(articles) :
            LET links == CategoryLinksOf(walked, i)
            IN  articles[i].category =
                    IF links = <<>> THEN DefaultCategory
                    ELSE CategoryOf(links[Len(links)].text)

C13_Witness ==
    /\ pc = "returned"
    /\ Len(articles) = 2
    /\ Len(CategoryLinksOf(walked, 1)) = 2
    /\ articles[1].category = <<"x", " ", "y">>
    /\ CategoryLinksOf(walked, 1)[1].text = <<"z">>
    /\ articles[2].category = DefaultCategory

(***************************************************************************)
(* C14: a link that is not a title link never changes the list and never  *)
(* closes or replaces the open article: a category link changes only the  *)
(* open article's category, any other link changes nothing.               *)
(***************************************************************************)
C14_NonTitleLinkFrame ==
    [][ (Dispatched /\ Ev.kind = "link" /\ ~IsTitle(Ev.text)) =>
            /\ articles' = articles
            /\ (current_article = None) => (current_article' = None)
            /\ (current_article # None) =>
                  current_article' =
                      IF Contains(Ev.url, StreamMark)
                      THEN [current_article EXCEPT !.category = current_article'.category]
                      ELSE current_article ]_vars

C14_Witness ==
    /\ pc = "walk"
    /\ Len(walked) >= 3
    /\ IsCategoryLink(LastEvent)
    /\ current_article # None
    /\ current_article.content # <<>>
    /\ current_article.category # DefaultCategory

(***************************************************************************)
(* C15: a paragraph that arrives before the first title link changes      *)
(* nothing; until the first title there is no open article and no list    *)
(* entry, and the first article opens empty.                               *)
(***************************************************************************)
C15_NothingBeforeFirstTitle ==
    /\ []((pc = "walk" /\ Opened = 0) => (current_article = None /\ articles = <<>>))
    /\ [][ /\ (Dispatched /\ Ev.kind = "paragraph" /\ current_article = None) =>
                (current_article' = None /\ articles' = articles)
           /\ (Dispatched /\ IsTitleLink(Ev) /\ Opened = 0) =>
                /\ current_article'.content = <<>>
                /\ current_article'.published_at = <<>>
                /\ articles' = <<>> ]_vars

C15_Witness ==
    /\ pc = "returned"
    /\ Len(walked) = 3
    /\ IsBodyParagraph(walked[1]) /\ walked[1].text # <<>>
    /\ IsAgoParagraph(walked[2])
    /\ IsTitleLink(walked[3])
    /\ Len(articles) = 1
    /\ articles[1].content = <<>>
    /\ articles[1].published_at = <<>>

(***************************************************************************)
(* C16: every paragraph ending in 'ago' overwrites published_at, so an    *)
(* article's published_at is the trimmed text of the last such paragraph  *)
(* seen while it was open, and empty when there was none.                 *)
(***************************************************************************)
PublishedOf(w, i) ==
    LET agos == AgoOf(w, i)
    IN  IF agos = <<>> THEN <<>> ELSE Strip(agos[Len(agos)].text)

C16_LastWriteWins ==
    /\ pc = "returned" =>
          \A i \in 1..Len(articles) : articles[i].published_at = PublishedOf(walked, i)
    /\ (pc = "walk" /\ current_article # None) =>
          current_article.published_at = PublishedOf(walked, Len(TitleLinks(walked)))

C16_Witness ==
    /\ pc = "walk"
    /\ Len(articles) = 1
    /\ Len(AgoOf(walked, 1)) = 2
    /\ AgoOf(walked, 1)[1].text = <<"3", " ", "a", "g", "o">>
    /\ articles[1].published_at = <<"5", " ", "a", "g", "o">>
    /\ current_article.published_at = <<>>

(***************************************************************************)
(* C17: no link or paragraph changes an article already in the list, and  *)
(* an article opened by a title link starts from the defaults.            *)
(***************************************************************************)
C17_CommittedIsFrozen ==
    [][ Dispatched =>
            /\ \A i \in 1..Len(articles) : articles'[i] = articles[i]
            /\ IsTitleLink(Ev) =>
                  /\ current_article'.content = <<>>
                  /\ current_article'.published_at = <<>>
                  /\ current_article'.category = DefaultCategory
                  /\ current_article'.summary = <<>>
                  /\ current_article'.source = TEName
                  /\ current_article'.author = TEName ]_vars

C17_Witness ==
    /\ pc = "walk"
    /\ Len(articles) = 1
    /\ articles[1].content # <<>>
    /\ articles[1].published_at # <<>>
    /\ current_article # None
    /\ current_article.content = <<>>
    /\ current_article.published_at = <<>>
    /\ Len(walked) = 4

(***************************************************************************)
(* Two interleaved conversions                                             *)
(***************************************************************************)
InitConc ==
    /\ renderers = [i \in Invocations |-> FreshRenderer]
    /\ inv = [i \in Invocations |-> [walked |-> <<>>, pc |-> "walk"]]
    /\ NoWalk /\ NoMonitor /\ NoFile

NextConc ==
    \E i \in Invocations :
        \/ \E e \in ConcLinkEvents : conc_link(i, e.text, e.url)
        \/ \E e \in ConcParagraphEvents : conc_paragraph(i, e.text)
        \/ conc_get_articles(i)

SpecConc == InitConc /\ [][NextConc]_vars

(***************************************************************************)
(* C11: with the callbacks of two conversions interleaved in any order,   *)
(* each returns the list it returns when run alone, and a step of one     *)
(* never changes the open article or the list of the other.               *)
(***************************************************************************)
C11_InterleavingIsInvisible ==
    /\ [](\A i \in Invocations :
            inv[i].pc = "returned" => renderers[i].articles = RunAlone(inv[i].walked))
    /\ [][ \A i \in Invocations : \A j \in Invocations \ {i} :
             (inv'[i] # inv[i]) => (renderers'[j] = renderers[j]) ]_vars

C11_Witness ==
    /\ \A i \in Invocations : inv[i].pc = "returned" /\ Len(inv[i].walked) = 2
    /\ Len(ResultOf(1)) = 2
    /\ Len(ResultOf(2)) = 1
    /\ ResultOf(2)[1].published_at # <<>>
    /\ ResultOf(1)[1].published_at = <<>>

(***************************************************************************)
(* The monitor, run after run                                              *)
(***************************************************************************)
InitMonitor ==
    /\ store = [v \in Variants |-> None]
    /\ last_run = None
    /\ runs = 0
    /\ NoWalk /\ NoConversions /\ NoFile

NextMonitor ==
    \E variant \in Variants, title \in TopTitles, url \in TopUrls,
       read_ok \in BOOLEAN, extract_ok \in BOOLEAN :
        \E write \in WriteOutcomes(variant) :
            monitor_run(variant, title, url, read_ok, extract_ok, write)

SpecMonitor == InitMonitor /\ [][NextMonitor]_vars

\* a step that is a monitor run, and the variant that ran
Ran == runs' = runs + 1
V == last_run'.variant

C19_SameTitleSkipsExtraction ==
    [][ Ran =>
          /\ (last_run'.fetched /\ last_run'.last_title = last_run'.top.title) =>
                (~last_run'.extracted /\ store' = store)
          /\ last_run'.saved =>
                (last_run'.extracted /\ StoredTitle(store'[V]) = last_run'.top.title)
          /\ ( /\ last_run # None
               /\ last_run.variant = V
               /\ last_run.saved
               /\ last_run'.fetched
               /\ last_run'.top.title = last_run.top.title
               /\ last_run'.last_title = StoredTitle(store[V]) )
             => (~last_run'.extracted /\ store' = store)
          /\ (last_run'.fetched /\ last_run'.last_title = NoValue) =>
                last_run'.extracted ]_vars

C19_Witness ==
    /\ runs = 3
    /\ last_run.variant = "firecrawl"
    /\ last_run.fetched
    /\ last_run.top.title = "T1"
    /\ last_run.last_title = "T1"
    /\ ~last_run.extracted
    /\ store["firecrawl"] = [title |-> "T1", url |-> NEWS_URL]

(***************************************************************************)
(* convert_file on each input file                                         *)
(***************************************************************************)
InitFile ==
    /\ input_file \in [envelope : Envelopes, write : WriteResults]
    /\ output_file = None
    /\ returned = None
    /\ NoWalk /\ NoConversions /\ NoMonitor

NextFile == convert_file

SpecFile == InitFile /\ [][NextFile]_vars

\* the articles the markdown of the input file converts to
ArticlesOfInput == RunAlone(input_file.envelope.events)

(***************************************************************************)
(* C20, as stated: the conversion runs only for an envelope with a true   *)
(* success flag and a data entry; an output record is written and True    *)
(* returned exactly when the conversion gave at least one article, with   *)
(* total_articles their number; otherwise False is returned and no output *)
(* is written.                                                             *)
(***************************************************************************)
C20_OutputIffArticles ==
    returned # None =>
        /\ returned.converted => ValidEnvelope(input_file.envelope)
        /\ returned.value <=>
              /\ returned.converted
              /\ input_file.envelope.markdown = "text"
              /\ ArticlesOfInput # <<>>
        /\ returned.value =>
              /\ output_file # None /\ output_file # Truncated
              /\ output_file.articles = ArticlesOfInput
              /\ output_file.metadata.total_articles = Len(output_file.articles)
        /\ ~returned.value => output_file = None

(***************************************************************************)
(* C20, amended: as stated, but True is returned exactly when the         *)
(* conversion gave at least one article and no exception followed, and    *)
(* when False is returned no output exists unless the exception was       *)
(* raised after the output file was opened: the file then exists,         *)
(* truncated if the write itself failed.                                   *)
(***************************************************************************)
C20_OutputIffArticlesWritten ==
    returned # None =>
        /\ returned.converted => ValidEnvelope(input_file.envelope)
        /\ returned.value <=>
              /\ ValidEnvelope(input_file.envelope)
              /\ input_file.envelope.markdown = "text"
              /\ ArticlesOfInput # <<>>
              /\ input_file.write = "ok"
        /\ returned.value =>
              /\ output_file # None /\ output_file # Truncated
              /\ output_file.articles = ArticlesOfInput
              /\ output_file.metadata.total_articles = Len(output_file.articles)
        /\ ~returned.value =>
              /\ output_file # None =>
                    /\ ValidEnvelope(input_file.envelope)
                    /\ ArticlesOfInput # <<>>
                    /\ input_file.write \in {"dump_fails", "report_fails"}
              /\ input_file.write = "dump_fails" => output_file \in {None, Truncated}
              /\ input_file.write = "report_fails" =>
                    output_file \in {None, OutputRecord(ArticlesOfInput)}
              /\ input_file.write \in {"ok", "open_fails"} => output_file = None

C20_Witness ==
    /\ returned # None
    /\ returned.value
    /\ Len(output_file.articles) = 2
    /\ output_file.metadata.total_articles = 2

====
